---- MODULE Spec2Model ----
(***************************************************************************)
(* Playback core of audiobookshelf_client (src/audiobookshelf_client/src/  *)
(* main.rs): the AudioClient, its rodio Sink, and run_audio_client, the    *)
(* loop that multiplexes control commands and end-of-buffer notifications. *)
(* Times are whole seconds; track indices are 0-based as in the code.      *)
(***************************************************************************)
EXTENDS Integers, Sequences, FiniteSets, TLC

\* ------------------------------------------------------------------ bounds
\* Tracks per session.
MaxTracks == 3
\* Track Index in isolation: largest start_offset and largest duration.
MaxStart == 3
MaxLen == 2
\* The event loop: duration of every track of a session.
MaxDur == 1
\* Commands the queue holds at once (mpsc::channel(512) in main).
MaxQueue == 2
\* Commands sent in one run.
MaxCommands == 2
\* Largest gap between adjacent tracks of a session.
MaxGap == 1
\* Largest volume level.
MaxVolume == 1

\* ------------------------------------------------------------- data model
\* Option<T>: None is the empty tuple, Some(v) the one-element tuple.
None == <<>>
Some(v) == <<v>>

\* AudioTrack as main.rs reads it: start_offset, duration, metadata (whether
\* the track carries a local file descriptor).
Track(s, d, m) == [start_offset |-> s, duration |-> d, metadata |-> m]

\* playback.audio_tracks[i], 0-based.
TrackAt(tracks, i) == tracks[i + 1]

TrackEnd(track) == track.start_offset + track.duration

\* ------------------------------------------------------------ Track Index
RECURSIVE FindTrackFrom(_, _, _)

\* Variants of the loop body: a strict comparison, the absolute position as
\* offset, and the comparison against start_offset alone.
FindTrackFromStrict(tracks, current_time, index) ==
    IF index >= Len(tracks) THEN None
    ELSE IF TrackEnd(TrackAt(tracks, index)) > current_time
         THEN Some(<<index, current_time - TrackAt(tracks, index).start_offset>>)
         ELSE FindTrackFrom(tracks, current_time, index + 1)

FindTrackFromAbsolute(tracks, current_time, index) ==
    IF index >= Len(tracks) THEN None
    ELSE IF TrackEnd(TrackAt(tracks, index)) >= current_time
         THEN Some(<<index, current_time>>)
         ELSE FindTrackFrom(tracks, current_time, index + 1)

FindTrackFromByStart(tracks, current_time, index) ==
    IF index >= Len(tracks) THEN None
    ELSE IF TrackAt(tracks, index).start_offset >= current_time
         THEN Some(<<index, current_time - TrackAt(tracks, index).start_offset>>)
         ELSE FindTrackFrom(tracks, current_time, index + 1)

\* The for loop of get_active_track_index from position `index` on.
FindTrackFrom(tracks, current_time, index) ==
    IF index >= Len(tracks) THEN None
    ELSE IF TrackEnd(TrackAt(tracks, index)) >= current_time
         THEN Some(<<index, current_time - TrackAt(tracks, index).start_offset>>)
         ELSE FindTrackFrom(tracks, current_time, index + 1)

\* AudioClient::get_active_track_index: Option<(usize, f64)>.
GetActiveTrackIndex(tracks, current_time) == FindTrackFrom(tracks, current_time, 0)

\* --------------------------------------------------------- Source Resolver
\* open_local_stream: Some(file) when the track has metadata and File::open
\* succeeds, None otherwise.
OpenLocalStream(metadata, open_ok) == metadata /\ open_ok

\* A resolver that tries the local file whatever use_local says.
GetAudioSourceIgnoringMode(local_mode, track, open_ok, remote_ok) ==
    IF OpenLocalStream(track.metadata, open_ok) THEN "local"
    ELSE IF remote_ok THEN "remote"
    ELSE "error"

\* AudioClient::get_audio_source: "local", "remote", or "error" when the
\* remote fetch (audiofile_stream) fails.
GetAudioSource(local_mode, track, open_ok, remote_ok) ==
    IF local_mode /\ OpenLocalStream(track.metadata, open_ok) THEN "local"
    ELSE IF remote_ok THEN "remote"
    ELSE "error"

\* What the outside world decides during one resolution: whether the local
\* file opens, whether the remote fetch succeeds, whether Decoder::new accepts
\* the stream, whether the sink's try_seek succeeds, and whether a callback
\* dropped by clear() runs first.
\* A step that is never reached (decode after a failed fetch, seek after a
\* failed decode) is left at "succeeds".
Worlds ==
    { w \in [open_ok : BOOLEAN, remote_ok : BOOLEAN, decode_ok : BOOLEAN,
             seek_ok : BOOLEAN, clear_fires : BOOLEAN] :
        /\ ~w.decode_ok => (w.open_ok /\ w.remote_ok /\ w.seek_ok)
        /\ ~w.seek_ok => (w.open_ok /\ w.remote_ok) }

\* ------------------------------------------------------------ Sink Adapter
\* The sink's queue holds decoded track buffers and EmptyCallback sources.  A
\* callback is live while the receiver of its channel is the one the loop
\* holds; try_send of any other callback fails and is ignored.
TrackItem(i, src) == [kind |-> "track", index |-> i, source |-> src, live |-> FALSE]
CallbackItem(live) == [kind |-> "callback", index |-> -1, source |-> "none", live |-> live]

HasLiveCallback(queue) ==
    \E k \in 1..Len(queue) : queue[k].kind = "callback" /\ queue[k].live

\* Index of the track whose decoded buffer is queued, -1 when none is.
QueuedTrack(queue) ==
    IF \E k \in 1..Len(queue) : queue[k].kind = "track"
    THEN queue[CHOOSE k \in 1..Len(queue) :
                 /\ queue[k].kind = "track"
                 /\ \A j \in 1..(k - 1) : queue[j].kind # "track"].index
    ELSE -1

NumTrackBuffers(queue) == Cardinality({ k \in 1..Len(queue) : queue[k].kind = "track" })

\* A notification already sitting in the receiver, or sent while clearing,
\* belongs to a buffer that is no longer queued.
Superseded(msg) == IF msg = "none" THEN "none" ELSE "stale"

\* The client state the handlers thread through: c.playing, c.sink, c.rx (the
\* receiver on_audio_end) and c.resolved.

\* A clear that pauses the sink and keeps what is queued.
SinkClearKeepingQueue(c, fires) ==
    [c EXCEPT !.sink = [@ EXCEPT !.paused = TRUE]]

\* Sink::clear: drops every queued source and pauses the sink.  A live
\* callback among them either runs (its notification lands in the receiver)
\* or is dropped unrun; either way its sender is gone.
SinkClear(c, fires) ==
    [c EXCEPT
       !.sink = [@ EXCEPT !.queue = <<>>, !.paused = TRUE, !.pos = 0],
       !.rx = IF HasLiveCallback(c.sink.queue)
              THEN [msg |-> IF fires THEN "stale" ELSE Superseded(c.rx.msg),
                    closed |-> TRUE]
              ELSE [c.rx EXCEPT !.msg = Superseded(c.rx.msg)]]

\* Sink::append of a decoded track.
SinkAppend(c, i, src) ==
    [c EXCEPT !.sink = [@ EXCEPT !.queue = Append(@, TrackItem(i, src))]]

SinkPlay(c) == [c EXCEPT !.sink = [@ EXCEPT !.paused = FALSE]]

SinkPause(c) == [c EXCEPT !.sink = [@ EXCEPT !.paused = TRUE]]

\* A set_volume that also resumes the sink.
SinkSetVolumeResuming(c, v) == [c EXCEPT !.sink = [@ EXCEPT !.volume = v, !.paused = FALSE]]

SinkSetVolume(c, v) == [c EXCEPT !.sink = [@ EXCEPT !.volume = v]]

\* Sink::try_seek: nothing to do on an empty sink; otherwise the position of
\* the playing source becomes `offset` (the caller checks seek_ok first).
SinkSeek(c, offset) ==
    IF c.sink.queue = <<>> THEN c
    ELSE [c EXCEPT !.sink = [@ EXCEPT !.pos = offset]]

Retire(queue) ==
    [k \in 1..Len(queue) |->
        IF queue[k].kind = "callback" THEN CallbackItem(FALSE) ELSE queue[k]]

\* Variant: a new channel is made but the callbacks already queued deliver
\* into it as well.
WaitTillEndNoRetire(c) ==
    [c EXCEPT
       !.sink = [@ EXCEPT !.queue = Append(@, CallbackItem(TRUE))],
       !.rx = [msg |-> "none", closed |-> FALSE]]

\* Variant: the callback is appended but the receiver is kept.
WaitTillEndKeepReceiver(c) ==
    [c EXCEPT !.sink = [@ EXCEPT !.queue = Append(@, CallbackItem(TRUE))]]

\* AudioClient::wait_till_end, with the assignment to on_audio_end that every
\* call site makes: a new channel, its callback appended to the sink, the
\* previous receiver (and whatever it held) dropped.
WaitTillEnd(c) ==
    [c EXCEPT
       !.sink = [@ EXCEPT !.queue = Append(Retire(@), CallbackItem(TRUE))],
       !.rx = [msg |-> "none", closed |-> FALSE]]

\* ------------------------------------------------------------ AudioClient
PlayingState(playback, current_track) ==
    [playback |-> playback, current_track |-> current_track]

Outcome(c, outcome, switched) == [c |-> c, outcome |-> outcome, switched |-> switched]

Resolve(c, i) == [c EXCEPT !.resolved = Append(@, i)]

\* The tail of seek: Duration::from_secs_f64 panics on a negative offset,
\* then sink.try_seek(..)? and Ok(true).
SeekTail(c, offset, w, switched) ==
    IF offset < 0 THEN Outcome(c, "panic", switched)
    ELSE IF c.sink.queue # <<>> /\ ~w.seek_ok THEN Outcome(c, "err", switched)
    ELSE Outcome(SinkSeek(c, offset), "ok", switched)

\* A track switch that leaves the sink as clear() put it, without play().
SeekSwitchLeftPaused(c, local_mode, tracks, index, offset, w) ==
    LET cleared == Resolve(SinkClear(c, w.clear_fires), index)
        source == GetAudioSource(local_mode, TrackAt(tracks, index), w.open_ok, w.remote_ok)
    IN  IF source = "error" \/ ~w.decode_ok
        THEN Outcome(cleared, "err", FALSE)
        ELSE SeekTail(SinkAppend(cleared, index, source), offset, w, TRUE)

\* AudioClient::seek, the branch current_track != playing.current_track:
\* is_paused is read, the sink is cleared, the track is resolved, decoded and
\* appended, play() is called unless the sink was paused, then try_seek.
SeekSwitch(c, local_mode, tracks, index, offset, w) ==
    LET cleared == Resolve(SinkClear(c, w.clear_fires), index)
        source == GetAudioSource(local_mode, TrackAt(tracks, index), w.open_ok, w.remote_ok)
    IN  IF source = "error" \/ ~w.decode_ok
        THEN Outcome(cleared, "err", FALSE)
        ELSE LET appended == SinkAppend(cleared, index, source)
                 resumed == IF ~c.sink.paused THEN SinkPlay(appended) ELSE appended
             IN  SeekTail(resumed, offset, w, TRUE)

\* A seek that replaces the buffer whatever track the position lies in.
SeekAlwaysSwitching(c, local_mode, position, w) ==
    IF c.playing = None THEN Outcome(c, "noop", FALSE)
    ELSE LET tracks == c.playing[1].playback.audio_tracks
             found == GetActiveTrackIndex(tracks, position)
         IN  IF found = None THEN Outcome(c, "panic", FALSE)
             ELSE SeekSwitch(c, local_mode, tracks, found[1][1], found[1][2], w)

\* AudioClient::seek.  Outcomes: "noop" is Ok(false), "ok" is Ok(true), "err"
\* is an Err returned through `?`, "panic" is the unwrap of None (or the
\* negative Duration).  playing.current_track is only read.
Seek(c, local_mode, position, w) ==
    IF c.playing = None THEN Outcome(c, "noop", FALSE)
    ELSE LET tracks == c.playing[1].playback.audio_tracks
             found == GetActiveTrackIndex(tracks, position)
         IN  IF found = None THEN Outcome(c, "panic", FALSE)
             ELSE IF found[1][1] # c.playing[1].current_track
                  THEN SeekSwitch(c, local_mode, tracks, found[1][1], found[1][2], w)
                  ELSE SeekTail(c, found[1][2], w, FALSE)

\* An add_next_track that unwraps self.playing.
AddNextTrackUnwrapping(c, local_mode, w) ==
    IF c.playing = None THEN Outcome(c, "panic", FALSE)
    ELSE LET tracks == c.playing[1].playback.audio_tracks
             next == c.playing[1].current_track + 1
             moved == [c EXCEPT !.playing = Some(PlayingState(c.playing[1].playback, next))]
         IN  IF next >= Len(tracks) THEN Outcome(moved, "panic", FALSE)
             ELSE Outcome(SinkAppend(Resolve(moved, next), next, "remote"), "ok", TRUE)

\* AudioClient::add_next_track: Ok(false) without a Playing State or when
\* current_track >= len; otherwise current_track += 1, then
\* audio_tracks[current_track] (an index out of bounds panics), resolve,
\* decode, append.
AddNextTrack(c, local_mode, w) ==
    IF c.playing = None THEN Outcome(c, "noop", FALSE)
    ELSE LET tracks == c.playing[1].playback.audio_tracks
             next == c.playing[1].current_track + 1
             moved == [c EXCEPT !.playing = Some(PlayingState(c.playing[1].playback, next))]
         IN  IF c.playing[1].current_track >= Len(tracks) THEN Outcome(c, "noop", FALSE)
             ELSE IF next >= Len(tracks) THEN Outcome(moved, "panic", FALSE)
             ELSE LET source == GetAudioSource(local_mode, TrackAt(tracks, next), w.open_ok, w.remote_ok)
                  IN  IF source = "error" \/ ~w.decode_ok
                      THEN Outcome(Resolve(moved, next), "err", FALSE)
                      ELSE Outcome(SinkAppend(Resolve(moved, next), next, source), "ok", TRUE)

\* A set_current_item that records the Playing State before the sink is
\* prepared.
SetCurrentItemEager(c, local_mode, playback, w) ==
    LET tracks == playback.audio_tracks
        found == GetActiveTrackIndex(tracks, playback.current_time)
    IN  IF found = None THEN Outcome(c, "panic", FALSE)
        ELSE LET index == found[1][1]
                 entered == [c EXCEPT !.playing = Some(PlayingState(playback, index))]
                 cleared == Resolve(SinkClear(entered, w.clear_fires), index)
                 source == GetAudioSource(local_mode, TrackAt(tracks, index), w.open_ok, w.remote_ok)
             IN  IF source = "error" \/ ~w.decode_ok
                 THEN Outcome(cleared, "err", FALSE)
                 ELSE SeekTail(SinkAppend(cleared, index, source), found[1][2], w, TRUE)

\* AudioClient::set_current_item once the server has answered with `playback`.
SetCurrentItemWith(c, local_mode, playback, w) ==
    LET tracks == playback.audio_tracks
        found == GetActiveTrackIndex(tracks, playback.current_time)
    IN  IF found = None THEN Outcome(c, "panic", FALSE)
        ELSE LET index == found[1][1]
                 cleared == Resolve(SinkClear(c, w.clear_fires), index)
                 source == GetAudioSource(local_mode, TrackAt(tracks, index), w.open_ok, w.remote_ok)
             IN  IF source = "error" \/ ~w.decode_ok
                 THEN Outcome(cleared, "err", FALSE)
                 ELSE LET sought == SeekTail(SinkAppend(cleared, index, source), found[1][2], w, TRUE)
                      IN  IF sought.outcome = "ok"
                          THEN Outcome([sought.c EXCEPT !.playing = Some(PlayingState(playback, index))],
                                       "ok", TRUE)
                          ELSE sought

\* A get_offset that reports the position within the queued buffer only.
GetOffsetWithinTrack(c) ==
    IF c.playing = None THEN None
    ELSE Some(<<c.sink.pos, c.playing[1].playback.duration>>)

\* AudioClient::get_offset: Option<PositionOffset> as <<offset, duration>>.
GetOffset(c) ==
    IF c.playing = None THEN None
    ELSE Some(<<TrackAt(c.playing[1].playback.audio_tracks, c.playing[1].current_track).start_offset
                  + c.sink.pos,
                c.playing[1].playback.duration>>)

\* AudioClient::get_volume.
GetVolume(c) == c.sink.volume

\* --------------------------------------------------------------- variables
VARIABLES
    status,        \* where main / run_audio_client is: "new", "set_item", "play",
                   \* "start_loop", "loop", "ok", "err", "panic"
    playing,       \* AudioClient.playing: Option<PlayingState>
    use_local,     \* AudioClient.use_local
    sink,          \* the rodio Sink: [queue, paused, volume, pos, ended]
    on_audio_end,  \* the receiver the loop holds: [msg, closed]
    events,        \* the mpsc command queue (ClientEvent values in flight)
    senders,       \* whether any mpsc::Sender of the command queue is alive
    sent,          \* number of commands the control surface has sent so far
    resolved,      \* track indices handed to get_audio_source, in call order
    reply,         \* the last answer put on a oneshot reply channel
    last,          \* the event the loop handled last, with what it saw
    handled,       \* sequence number of the command the loop took last (0: none)
    tl_tracks,     \* Track Index under test: the track list,
    tl_time,       \*   the position,
    tl_result,     \*   and the result of get_active_track_index (None before)
    rs_args,       \* Source Resolver under test: the arguments and the world,
    rs_result      \*   and the result of get_audio_source (None before)

vars == <<status, playing, use_local, sink, on_audio_end, events, senders, sent,
          resolved, reply, last, handled, tl_tracks, tl_time, tl_result,
          rs_args, rs_result>>

loop_vars == <<status, playing, use_local, sink, on_audio_end, events, senders,
               sent, resolved, reply, last, handled>>

tl_vars == <<tl_tracks, tl_time, tl_result>>

rs_vars == <<rs_args, rs_result>>

\* ------------------------------------------------- Track Index, in isolation
\* Every track list ordered by start_offset (overlaps, gaps and zero-length
\* tracks included) of at most MaxTracks tracks.
TrackValues == { Track(s, d, FALSE) : s \in 0..MaxStart, d \in 0..MaxLen }

Ordered(tracks) ==
    \A i \in 1..(Len(tracks) - 1) : tracks[i].start_offset <= tracks[i + 1].start_offset

TrackLists ==
    UNION { { t \in [1..n -> TrackValues] : Ordered(t) } : n \in 0..MaxTracks }

TimeValues == 0..(MaxStart + MaxLen + 1)

\* The Track invariant of the data model: adjacent tracks do not overlap.
NonOverlapping(tracks) ==
    \A i \in 1..(Len(tracks) - 1) : TrackEnd(tracks[i]) <= tracks[i + 1].start_offset

\* End of the last track (0 for an empty list).
TotalEnd(tracks) == IF Len(tracks) = 0 THEN 0 ELSE TrackEnd(tracks[Len(tracks)])

\* `ended` records the track whose buffer last played to its end (-1: none).
IdleSink == [queue |-> <<>>, paused |-> FALSE, volume |-> 1, pos |-> 0, ended |-> -1]
NoReceiver == [msg |-> "none", closed |-> TRUE]
NoEvent == [kind |-> "none"]

\* The client as AudioClient::new leaves it (playing: None, use_local: false),
\* before main has done anything with it.
Constructed ==
    /\ status = "new"
    /\ playing = None
    /\ use_local = FALSE
    /\ sink = IdleSink
    /\ on_audio_end = NoReceiver
    /\ events = <<>>
    /\ senders = TRUE
    /\ sent = 0
    /\ resolved = <<>>
    /\ reply = None
    /\ last = NoEvent
    /\ handled = 0

\* get_audio_source not called: a track, local mode off, nothing reachable.
NoCall ==
    /\ rs_args = [local_mode |-> FALSE, track |-> Track(0, 0, FALSE),
                  open_ok |-> FALSE, remote_ok |-> FALSE]
    /\ rs_result = None

InitTrackIndex ==
    /\ Constructed
    /\ NoCall
    /\ tl_tracks \in TrackLists
    /\ tl_time \in TimeValues
    /\ tl_result = None

\* One call of get_active_track_index on the inputs drawn by InitTrackIndex.
Locate ==
    /\ tl_result = None
    /\ tl_result' = Some(GetActiveTrackIndex(tl_tracks, tl_time))
    /\ UNCHANGED <<loop_vars, tl_tracks, tl_time, rs_vars>>

NextTrackIndex == Locate

SpecTrackIndex == InitTrackIndex /\ [][NextTrackIndex]_vars

\* --------------------------------------------- Source Resolver, in isolation
\* Every call of get_audio_source: local mode on or off, a track with or
\* without a local file descriptor, File::open succeeding or not, the
\* download succeeding or not.
ResolverArgs ==
    [local_mode : BOOLEAN,
     track : { Track(s, d, m) : s \in 0..MaxStart, d \in 0..MaxLen, m \in BOOLEAN },
     open_ok : BOOLEAN,
     remote_ok : BOOLEAN]

InitResolver ==
    /\ Constructed
    /\ tl_tracks = <<>>
    /\ tl_time = 0
    /\ tl_result = None
    /\ rs_args \in ResolverArgs
    /\ rs_result = None

\* One call of get_audio_source on the inputs drawn by InitResolver.
ResolveSource ==
    /\ rs_result = None
    /\ rs_result' = Some(GetAudioSource(rs_args.local_mode, rs_args.track,
                                        rs_args.open_ok, rs_args.remote_ok))
    /\ UNCHANGED <<loop_vars, tl_vars, rs_args>>

NextResolver == ResolveSource

SpecResolver == InitResolver /\ [][NextResolver]_vars

\* Indices (0-based) of the tracks that end at or after `t`.
Candidates(tracks, t) == { i \in 0..(Len(tracks) - 1) : TrackEnd(TrackAt(tracks, i)) >= t }

Lowest(S) == CHOOSE i \in S : \A j \in S : i <= j

Located == tl_result # None
Result == tl_result[1]

\* C1: for every ordered track list and every position the result is the
\* lowest-index track i with start_offset[i] + duration[i] >= position, paired
\* with position - start_offset[i]; it is None exactly when no track qualifies.
\* The call changes nothing else.
C1_FirstTrackAtOrAfter ==
    Located =>
        IF Candidates(tl_tracks, tl_time) = {}
        THEN Result = None
        ELSE LET i == Lowest(Candidates(tl_tracks, tl_time))
             IN Result = Some(<<i, tl_time - TrackAt(tl_tracks, i).start_offset>>)

C1_Witness ==
    /\ Located
    /\ Len(tl_tracks) = 3
    /\ Cardinality(Candidates(tl_tracks, tl_time)) = 2
    /\ Result = Some(<<1, 1>>)

\* C2 as stated: for a non-overlapping list, a position equal to the end of
\* track i and to the start of track i+1 resolves to (i, duration[i]).
C2_Original ==
    (Located /\ NonOverlapping(tl_tracks)) =>
        \A i \in 0..(Len(tl_tracks) - 2) :
            (/\ TrackEnd(TrackAt(tl_tracks, i)) = tl_time
             /\ TrackAt(tl_tracks, i + 1).start_offset = tl_time)
            => Result = Some(<<i, TrackAt(tl_tracks, i).duration>>)

\* C2 amended: the same for every track i of positive duration; in every case
\* the boundary position never resolves to track i+1, but to the earliest
\* track ending there.
C2_BoundaryResolvesToEarlier ==
    (Located /\ NonOverlapping(tl_tracks)) =>
        \A i \in 0..(Len(tl_tracks) - 2) :
            (/\ TrackEnd(TrackAt(tl_tracks, i)) = tl_time
             /\ TrackAt(tl_tracks, i + 1).start_offset = tl_time)
            => /\ Result # None
               /\ Result[1][1] <= i
               /\ TrackEnd(TrackAt(tl_tracks, Result[1][1])) = tl_time
               /\ TrackAt(tl_tracks, i).duration > 0
                    => Result = Some(<<i, TrackAt(tl_tracks, i).duration>>)

\* The scenario of the spec scaled to the bounds: tracks [{0, 2}, {2, 1}],
\* position 2 gives (track 0, offset 2).
C2_Witness ==
    /\ Located
    /\ tl_tracks = <<Track(0, 2, FALSE), Track(2, 1, FALSE)>>
    /\ tl_time = 2
    /\ Result = Some(<<0, 2>>)

\* Whether `t` lies inside some track, both ends included.
Covered(tracks, t) ==
    \E i \in 1..Len(tracks) : tracks[i].start_offset <= t /\ t <= TrackEnd(tracks[i])

InRange == NonOverlapping(tl_tracks) /\ Len(tl_tracks) > 0 /\ tl_time <= TotalEnd(tl_tracks)

\* C3 as stated: non-overlapping tracks, position within the total duration:
\* a result exists and 0 <= offset < duration[track], unless the position is
\* the end of the last track.
C3_Original ==
    (Located /\ InRange /\ tl_time # TotalEnd(tl_tracks)) =>
        /\ Result # None
        /\ 0 <= Result[1][2]
        /\ Result[1][2] < TrackAt(tl_tracks, Result[1][1]).duration

\* C3 amended: a result exists and offset <= duration[track]; offset equals
\* the duration exactly when the position is the inclusive end of the returned
\* track (any track, not only the last); offset is negative exactly when the
\* position lies in a gap covered by no track.
C3_OffsetWithinTrack ==
    (Located /\ InRange) =>
        /\ Result # None
        /\ Result[1][2] <= TrackAt(tl_tracks, Result[1][1]).duration
        /\ (Result[1][2] = TrackAt(tl_tracks, Result[1][1]).duration)
             <=> (tl_time = TrackEnd(TrackAt(tl_tracks, Result[1][1])))
        /\ (Result[1][2] < 0) <=> ~Covered(tl_tracks, tl_time)

C3_Witness ==
    /\ Located
    /\ InRange
    /\ Len(tl_tracks) = 3
    /\ Covered(tl_tracks, tl_time)
    /\ Result = Some(<<2, 1>>)
    /\ TrackAt(tl_tracks, 2).duration = 2

\* ------------------------------------------------------------ the program
\* A session as the server describes it: n tracks of MaxDur seconds each,
\* `gap` seconds apart, every other track with a local file descriptor, and
\* the position the listener had reached.
SessionOf(n, gap, t) ==
    [audio_tracks |-> [i \in 1..n |-> Track((i - 1) * (MaxDur + gap), MaxDur, i % 2 = 1)],
     current_time |-> t,
     duration |-> n * MaxDur + (IF n > 0 THEN (n - 1) * gap ELSE 0)]

MaxTime == MaxTracks * MaxDur + (MaxTracks - 1) * MaxGap + 1

Sessions ==
    { SessionOf(n, gap, t) : n \in 0..MaxTracks, gap \in 0..MaxGap, t \in 0..MaxTime }

\* ClientEvent.  arg: the position of Seek, the level of Volume, and for the
\* two queries 1 while the caller still holds the oneshot receiver, else 0.
Event(kind, arg) == [kind |-> kind, arg |-> arg]

ClientEvents ==
    { Event("Play", 0), Event("Pause", 0) }
    \cup { Event("Seek", p) : p \in 0..MaxTime }
    \cup { Event("Volume", v) : v \in 0..MaxVolume }
    \cup { Event(k, alive) : k \in {"GetVolume", "GetOffset"}, alive \in 0..1 }

\* A command in the queue; id: its place in the order the queue accepted the
\* commands (1 for the first).
Queued(e, id) == [kind |-> e.kind, arg |-> e.arg, id |-> id]

Cur == [playing |-> playing, sink |-> sink, rx |-> on_audio_end, resolved |-> resolved]

Becomes(c) ==
    /\ playing' = c.playing
    /\ sink' = c.sink
    /\ on_audio_end' = c.rx
    /\ resolved' = c.resolved

Handled(kind, arg, outcome, switched) ==
    [kind |-> kind, arg |-> arg, outcome |-> outcome,
     pending |-> on_audio_end.msg, switched |-> switched]

StatusAfter(outcome) ==
    IF outcome = "err" THEN "err" ELSE IF outcome = "panic" THEN "panic" ELSE "loop"

Init ==
    /\ Constructed
    /\ NoCall
    /\ tl_tracks = <<>>
    /\ tl_time = 0
    /\ tl_result = None

\* main: client.use_local(true).
UseLocal ==
    /\ status = "new"
    /\ use_local' = TRUE
    /\ status' = "set_item"
    /\ UNCHANGED <<playing, sink, on_audio_end, events, senders, sent, resolved,
                   reply, last, handled, tl_vars,
                   rs_vars>>

\* main: client.set_current_item().await? with nothing being listened to
\* (Ok(false)), or with me() or library_item_play failing (Err).
SetCurrentItemNone ==
    /\ status = "set_item"
    /\ \E ok \in BOOLEAN :
         /\ status' = IF ok THEN "play" ELSE "err"
         /\ last' = Handled("Load", 0, IF ok THEN "noop" ELSE "err", FALSE)
    /\ UNCHANGED <<playing, use_local, sink, on_audio_end, events, senders, sent,
                   resolved, reply, handled, tl_vars,
                   rs_vars>>

\* main: client.set_current_item().await? with a session to play.
SetCurrentItem ==
    /\ status = "set_item"
    /\ \E playback \in Sessions, w \in Worlds :
         LET r == SetCurrentItemWith(Cur, use_local, playback, w)
         IN  /\ Becomes(r.c)
             /\ status' = IF r.outcome = "ok" THEN "play" ELSE StatusAfter(r.outcome)
             /\ last' = Handled("Load", playback.current_time, r.outcome, r.switched)
    /\ UNCHANGED <<use_local, events, senders, sent, reply, handled, tl_vars,
                   rs_vars>>

\* main: client.sink.play(), then the command channel is created.
MainPlay ==
    /\ status = "play"
    /\ Becomes(SinkPlay(Cur))
    /\ status' = "start_loop"
    /\ UNCHANGED <<use_local, events, senders, sent, reply, last, handled, tl_vars,
                   rs_vars>>

\* run_audio_client: let mut on_audio_end = client.wait_till_end().
StartLoop ==
    /\ status = "start_loop"
    /\ Becomes(WaitTillEnd(Cur))
    /\ status' = "loop"
    /\ UNCHANGED <<use_local, events, senders, sent, reply, last, handled, tl_vars,
                   rs_vars>>

\* A request handler of the control surface puts a command on the queue.
Send ==
    /\ status = "loop"
    /\ senders
    /\ sent < MaxCommands
    /\ Len(events) < MaxQueue
    /\ \E e \in ClientEvents : events' = Append(events, Queued(e, sent + 1))
    /\ sent' = sent + 1
    /\ UNCHANGED <<status, playing, use_local, sink, on_audio_end, senders,
                   resolved, reply, last, handled, tl_vars,
                   rs_vars>>

\* Every sender of the command queue is dropped.
DropSenders ==
    /\ status = "loop"
    /\ senders
    /\ senders' = FALSE
    /\ UNCHANGED <<status, playing, use_local, sink, on_audio_end, events, sent,
                   resolved, reply, last, handled, tl_vars,
                   rs_vars>>

\* A receive that loses the command behind the one it hands out.
ReceivesSkipping(kind) ==
    /\ status = "loop"
    /\ events # <<>>
    /\ Head(events).kind = kind
    /\ events' = SubSeq(events, 3, Len(events))
    /\ handled' = Head(events).id

\* A receive that is polled while a handler is suspended in an await.
ReceivesWhileResolving(kind) ==
    /\ status \in {"loop", "resolving"}
    /\ events # <<>>
    /\ Head(events).kind = kind
    /\ events' = Tail(events)
    /\ handled' = Head(events).id

\* event = events.recv() yields Some(command): the oldest command leaves the
\* queue and the arm of its kind runs.
Receives(kind) ==
    /\ status = "loop"
    /\ events # <<>>
    /\ Head(events).kind = kind
    /\ events' = Tail(events)
    /\ handled' = Head(events).id

\* Some(ClientEvent::Play) => client.sink.play().
HandlePlay ==
    /\ Receives("Play")
    /\ Becomes(SinkPlay(Cur))
    /\ last' = Handled("Play", 0, "ok", FALSE)
    /\ UNCHANGED <<status, use_local, senders, sent, reply, tl_vars, rs_vars>>

\* Some(ClientEvent::Pause) => client.sink.pause().
HandlePause ==
    /\ Receives("Pause")
    /\ Becomes(SinkPause(Cur))
    /\ last' = Handled("Pause", 0, "ok", FALSE)
    /\ UNCHANGED <<status, use_local, senders, sent, reply, tl_vars, rs_vars>>

\* Some(ClientEvent::Seek(offset)) => client.seek(offset).await?;
\* on_audio_end = client.wait_till_end().
HandleSeek ==
    /\ Receives("Seek")
    /\ \E w \in Worlds :
         LET r == Seek(Cur, use_local, Head(events).arg, w)
         IN  /\ Becomes(IF r.outcome \in {"ok", "noop"} THEN WaitTillEnd(r.c) ELSE r.c)
             /\ status' = StatusAfter(r.outcome)
             /\ last' = Handled("Seek", Head(events).arg, r.outcome, r.switched)
    /\ UNCHANGED <<use_local, senders, sent, reply, tl_vars, rs_vars>>

\* Some(ClientEvent::Volume(volume)) => client.sink.set_volume(volume).
HandleVolume ==
    /\ Receives("Volume")
    /\ Becomes(SinkSetVolume(Cur, Head(events).arg))
    /\ last' = Handled("Volume", Head(events).arg, "ok", FALSE)
    /\ UNCHANGED <<status, use_local, senders, sent, reply, tl_vars, rs_vars>>

\* Some(ClientEvent::GetVolume(sender)) => let _ = sender.send(get_volume()).
HandleGetVolume ==
    /\ Receives("GetVolume")
    /\ reply' = IF Head(events).arg = 1 THEN Some(<<"GetVolume", <<GetVolume(Cur)>>>>) ELSE reply
    /\ last' = Handled("GetVolume", Head(events).arg, "ok", FALSE)
    /\ UNCHANGED <<status, playing, use_local, sink, on_audio_end, senders, sent,
                   resolved, tl_vars, rs_vars>>

\* A GetOffset arm that unwraps the result of sender.send.
HandleGetOffsetUnwrapping ==
    /\ Receives("GetOffset")
    /\ reply' = IF Head(events).arg = 1 THEN Some(<<"GetOffset", GetOffset(Cur)>>) ELSE reply
    /\ status' = IF Head(events).arg = 1 THEN status ELSE "panic"
    /\ last' = Handled("GetOffset", Head(events).arg, "ok", FALSE)
    /\ UNCHANGED <<playing, use_local, sink, on_audio_end, senders, sent,
                   resolved, tl_vars, rs_vars>>

\* Some(ClientEvent::GetOffset(sender)) => let _ = sender.send(get_offset()).
HandleGetOffset ==
    /\ Receives("GetOffset")
    /\ reply' = IF Head(events).arg = 1 THEN Some(<<"GetOffset", GetOffset(Cur)>>) ELSE reply
    /\ last' = Handled("GetOffset", Head(events).arg, "ok", FALSE)
    /\ UNCHANGED <<status, playing, use_local, sink, on_audio_end, senders, sent,
                   resolved, tl_vars, rs_vars>>

\* A recv() that reported the closure before the queue is drained.
RecvNoneUndrained == ~senders

\* events.recv() yields None: every sender is gone and nothing is queued.
RecvNone == events = <<>> /\ ~senders

\* None => return Ok(()): the queue is drained and every sender is gone.
HandleClosed ==
    /\ status = "loop"
    /\ RecvNone
    /\ status' = "ok"
    /\ last' = Handled("Closed", 0, "ok", FALSE)
    /\ UNCHANGED <<playing, use_local, sink, on_audio_end, events, senders, sent,
                   resolved, reply, handled, tl_vars,
                   rs_vars>>

\* is_finished = on_audio_end.recv(): with Some(()), client.sink.clear();
\* client.add_next_track().await?; on_audio_end = client.wait_till_end().
\* With None (sender gone, nothing sent) the branch does nothing.
HandleAudioEnd ==
    /\ status = "loop"
    /\ ~(on_audio_end.msg = "none" /\ ~on_audio_end.closed)
    /\ IF on_audio_end.msg = "none"
       THEN UNCHANGED <<status, playing, sink, on_audio_end, resolved, last>>
       ELSE \E w \in Worlds :
              LET taken == [Cur EXCEPT !.rx = [@ EXCEPT !.msg = "none"]]
                  r == AddNextTrack(SinkClear(taken, w.clear_fires), use_local, w)
              IN  /\ Becomes(IF r.outcome \in {"ok", "noop"} THEN WaitTillEnd(r.c) ELSE r.c)
                  /\ status' = StatusAfter(r.outcome)
                  /\ last' = Handled("AudioEnd", 0, r.outcome, r.switched)
    /\ UNCHANGED <<use_local, events, senders, sent, reply, handled, tl_vars,
                   rs_vars>>

\* The audio thread renders one more second of the track at the head of the
\* sink's queue.
Tick ==
    /\ status = "loop"
    /\ ~sink.paused
    /\ sink.queue # <<>>
    /\ Head(sink.queue).kind = "track"
    /\ sink.pos < TrackAt(playing[1].playback.audio_tracks, Head(sink.queue).index).duration
    /\ sink' = [sink EXCEPT !.pos = @ + 1]
    /\ UNCHANGED <<status, playing, use_local, on_audio_end, events, senders, sent,
                   resolved, reply, last, handled, tl_vars,
                   rs_vars>>

\* The audio thread reaches the end of the track at the head of the queue.
TrackEnds ==
    /\ status = "loop"
    /\ ~sink.paused
    /\ sink.queue # <<>>
    /\ Head(sink.queue).kind = "track"
    /\ sink.pos >= TrackAt(playing[1].playback.audio_tracks, Head(sink.queue).index).duration
    /\ sink' = [sink EXCEPT !.queue = Tail(@), !.pos = 0, !.ended = Head(sink.queue).index]
    /\ UNCHANGED <<status, playing, use_local, on_audio_end, events, senders, sent,
                   resolved, reply, last, handled, tl_vars,
                   rs_vars>>

\* The audio thread reaches an EmptyCallback: the callback runs
\* (sender.try_send(())) and the source ends.
CallbackRuns ==
    /\ status = "loop"
    /\ ~sink.paused
    /\ sink.queue # <<>>
    /\ Head(sink.queue).kind = "callback"
    /\ sink' = [sink EXCEPT !.queue = Tail(@), !.pos = 0]
    /\ on_audio_end' = IF Head(sink.queue).live
                       THEN [msg |-> "fresh", closed |-> TRUE]
                       ELSE on_audio_end
    /\ UNCHANGED <<status, playing, use_local, events, senders, sent, resolved,
                   reply, last, handled, tl_vars,
                   rs_vars>>

Next ==
    \/ UseLocal
    \/ SetCurrentItemNone
    \/ SetCurrentItem
    \/ MainPlay
    \/ StartLoop
    \/ Send
    \/ DropSenders
    \/ HandlePlay
    \/ HandlePause
    \/ HandleSeek
    \/ HandleVolume
    \/ HandleGetVolume
    \/ HandleGetOffset
    \/ HandleClosed
    \/ HandleAudioEnd
    \/ Tick
    \/ TrackEnds
    \/ CallbackRuns

Spec == Init /\ [][Next]_vars

\* ------------------------------------------------------------------ claims
Loaded == playing # None
Tracks == playing[1].playback.audio_tracks
CurrentTrack == playing[1].current_track

\* The loop takes a Seek whose position lies beyond every track.
SeekOutOfRange ==
    /\ Receives("Seek")
    /\ Loaded
    /\ GetActiveTrackIndex(Tracks, Head(events).arg) = None

\* C4: in state Loaded a SeekTo(p) beyond the total duration is rejected:
\* Playing State, the sink (buffer, play/pause state) and the armed wait are
\* unchanged and the loop keeps running.
C4_Original ==
    [][SeekOutOfRange =>
          /\ status' = "loop"
          /\ playing' = playing
          /\ sink' = sink
          /\ on_audio_end' = on_audio_end]_vars

\* C5: in every Loaded state of the running loop, current_track is the index
\* of the track whose decoded buffer is queued in the sink.
C5_Original ==
    (status = "loop" /\ Loaded /\ QueuedTrack(sink.queue) # -1)
        => CurrentTrack = QueuedTrack(sink.queue)

\* The loop takes an end-of-buffer notification.
AudioEndTaken == HandleAudioEnd /\ on_audio_end.msg # "none"

\* C6: when the end-of-track signal is handled while the last track is the
\* current one, the loop keeps running, resolves and queues nothing and
\* leaves Playing State as it is (so the same holds for any further signal).
C6_Original ==
    [][(AudioEndTaken /\ Loaded /\ CurrentTrack = Len(Tracks) - 1) =>
          /\ status' = "loop"
          /\ resolved' = resolved
          /\ NumTrackBuffers(sink'.queue) = 0
          /\ playing' = playing]_vars

\* C7: a notification that belongs to a buffer that was cleared away is never
\* in the receiver the running loop waits on, and no end-of-track handling
\* was ever started by one.
C7_NoSupersededSignal ==
    /\ status = "loop" => on_audio_end.msg # "stale"
    /\ last.kind = "AudioEnd" => last.pending = "fresh"

\* A Seek replaced the buffer while the notification of the replaced buffer
\* was waiting in the receiver, and the loop runs on.
C7_Witness ==
    /\ status = "loop"
    /\ last.kind = "Seek"
    /\ last.switched
    /\ last.pending = "fresh"
    /\ QueuedTrack(sink.queue) # -1
    /\ on_audio_end.msg = "none"

\* C8: when the end-of-track signal is handled after the buffer of track i
\* played to its end, track i+1 exists and resolution succeeds, the sink holds
\* the buffer of track i+1 alone, current_track = i+1 (one more than before)
\* and a new wait is armed.
C8_Original ==
    [][(/\ AudioEndTaken
        /\ Loaded
        /\ sink.ended >= 0
        /\ sink.ended + 1 < Len(Tracks)
        /\ status' # "err") =>
          /\ status' = "loop"
          /\ QueuedTrack(sink'.queue) = sink.ended + 1
          /\ NumTrackBuffers(sink'.queue) = 1
          /\ playing'[1].current_track = sink.ended + 1
          /\ playing'[1].current_track = CurrentTrack + 1
          /\ HasLiveCallback(sink'.queue)
          /\ on_audio_end' = [msg |-> "none", closed |-> FALSE]]_vars

\* A run that was loaded at track 0 and has received no command, with the
\* command queue still open.
AutoAdvanceRun ==
    /\ sent = 0
    /\ senders
    /\ Loaded
    /\ resolved # <<>>
    /\ resolved[1] = 0

Finished ==
    /\ status = "loop"
    /\ Loaded
    /\ Len(resolved) = Len(Tracks)
    /\ sink.queue = <<>>
    /\ on_audio_end.msg = "none"

\* Playback can go on by itself: the sink renders, or a notification waits.
CanProgress == (sink.queue # <<>> /\ ~sink.paused) \/ on_audio_end.msg # "none"

\* C9: auto-advance with no commands resolves tracks 0, 1, .., n-1 once each
\* in order, never stops the loop, and goes on until Finished.
C9_Original ==
    (AutoAdvanceRun /\ status \in {"loop", "panic"}) =>
        /\ status = "loop"
        /\ \A k \in 1..Len(resolved) : resolved[k] = k - 1
        /\ Len(resolved) <= Len(Tracks)
        /\ Finished \/ CanProgress

\* C10: an error raised while handling SeekTo or while auto-advancing leaves
\* run_audio_client running.
C10_Original ==
    (last.kind \in {"Seek", "AudioEnd"} /\ last.outcome = "err") => status = "loop"

\* C11: run_audio_client returns Ok only when every sender of the command
\* queue is gone and the queue is drained, so that every command that was
\* sent has been taken by then; and in every such state of the running loop
\* the return is the step the command branch takes.
C11_ReturnsWhenClosedAndDrained ==
    /\ status = "ok" => (~senders /\ events = <<>> /\ handled = sent)
    /\ (status = "loop" /\ ~senders /\ events = <<>>) => ENABLED HandleClosed
    /\ (status = "loop" /\ (senders \/ events # <<>>)) => ~ENABLED HandleClosed

\* The loop returned Ok after taking two commands.
C11_Witness ==
    /\ status = "ok"
    /\ last.kind = "Closed"
    /\ sent = 2
    /\ handled = 2

\* The loop takes a Seek whose target track is not playing.current_track, so
\* that AudioClient::seek replaces the queued buffer.
SeekTarget == GetActiveTrackIndex(Tracks, Head(events).arg)[1]

SeekSwitchTaken ==
    /\ Receives("Seek")
    /\ Loaded
    /\ GetActiveTrackIndex(Tracks, Head(events).arg) # None
    /\ SeekTarget[1] # CurrentTrack

\* C12: when resolving or decoding the target track fails while a SeekTo that
\* needs a track switch is handled, the state is as before the command: the
\* buffer that was queued is still queued, and Playing State and the
\* play/pause state are unchanged.
C12_Original ==
    [][(SeekSwitchTaken /\ last'.outcome = "err" /\ ~last'.switched) =>
          /\ QueuedTrack(sink'.queue) = QueuedTrack(sink.queue)
          /\ playing' = playing
          /\ sink'.paused = sink.paused]_vars

\* C13: when resolving or decoding track i+1 fails while the end-of-track
\* signal is handled, current_track becomes i+1, nothing is queued, and the
\* loop keeps running with a new wait armed (so that it goes on to i+2).
C13_Original ==
    [][(/\ AudioEndTaken
        /\ Loaded
        /\ CurrentTrack + 1 < Len(Tracks)
        /\ last'.outcome = "err") =>
          /\ status' = "loop"
          /\ playing'[1].current_track = CurrentTrack + 1
          /\ NumTrackBuffers(sink'.queue) = 0
          /\ HasLiveCallback(sink'.queue)]_vars

\* C15: a SeekTo that replaces the queued buffer by that of another track and
\* completes leaves the sink playing if it was playing and paused if it was
\* paused, with the buffer of the target track alone in the queue, positioned
\* at the offset within that track.
C15_SwitchRestoresPlayState ==
    [][(SeekSwitchTaken /\ last'.outcome = "ok") =>
          /\ sink'.paused = sink.paused
          /\ QueuedTrack(sink'.queue) = SeekTarget[1]
          /\ NumTrackBuffers(sink'.queue) = 1
          /\ sink'.pos = SeekTarget[2]]_vars

\* A Seek replaced the buffer of track 0 by that of another track, one
\* second into it, while the sink was playing, and the sink is playing.
C15_Witness ==
    /\ status = "loop"
    /\ last.kind = "Seek"
    /\ last.switched
    /\ last.outcome = "ok"
    /\ CurrentTrack = 0
    /\ QueuedTrack(sink.queue) > 0
    /\ sink.pos = 1
    /\ ~sink.paused
    /\ handled = 1

\* C16: when the end-of-track signal is handled while the sink is playing and
\* track i+1 is queued, the sink is playing afterwards.
C16_Original ==
    [][(/\ AudioEndTaken
        /\ Loaded
        /\ ~sink.paused
        /\ last'.outcome = "ok"
        /\ last'.switched) =>
          ~sink'.paused]_vars

\* A command joins the queue at its tail, numbered in arrival order.
CommandArrives ==
    /\ sent' = sent + 1
    /\ Len(events') = Len(events) + 1
    /\ SubSeq(events', 1, Len(events)) = events
    /\ events'[Len(events')].id = sent'

\* The loop takes the oldest command of the queue, the one that arrived
\* next after the command it took before, and runs the arm of that command.
CommandTaken ==
    /\ events # <<>>
    /\ events' = Tail(events)
    /\ sent' = sent
    /\ handled' = Head(events).id
    /\ handled' = handled + 1
    /\ last'.kind = Head(events).kind
    /\ last'.arg = Head(events).arg

\* C14: the commands are handled in the order they arrived, each once and
\* none skipped: the queue changes only by a command arriving at its tail
\* or by the loop taking its head, the command taken is always the one that
\* arrived right after the command taken before; no other step of the
\* loop (handling an end-of-buffer signal included) touches the queue.
C14_ArrivalOrder ==
    [][(events' # events \/ sent' # sent \/ handled' # handled)
          => (CommandArrives /\ handled' = handled) \/ CommandTaken]_vars

\* An end-of-buffer signal was handled after the first command, while the
\* second command was waiting in the queue.
C14_Witness ==
    /\ status = "loop"
    /\ handled = 1
    /\ last.kind = "AudioEnd"
    /\ Len(events) = 1
    /\ events[1].id = 2

\* C17: handling SetVolume, GetVolume or GetPosition leaves the loop running
\* and changes nothing but, for SetVolume, the volume: Playing State, the
\* sink's queue, position and play/pause state, the armed wait and the list
\* of resolutions are unchanged, and a query whose caller still waits is
\* answered in the same step.
C17_VolumeAndQueriesChangeNothingElse ==
    [][\A k \in {"Volume", "GetVolume", "GetOffset"} :
          Receives(k) =>
            /\ status' = "loop"
            /\ playing' = playing
            /\ sink' = [sink EXCEPT !.volume = IF k = "Volume" THEN Head(events).arg ELSE @]
            /\ on_audio_end' = on_audio_end
            /\ resolved' = resolved
            /\ (k # "Volume" /\ Head(events).arg = 1)
                 => (reply' # None /\ reply'[1][1] = k)
            /\ (k = "GetVolume" /\ Head(events).arg = 1)
                 => reply'[1][2] = <<sink.volume>>]_vars

\* The volume was set to 0 as the second command, on a loaded, paused sink
\* that still holds its buffer.
C17_Witness ==
    /\ status = "loop"
    /\ Loaded
    /\ last.kind = "Volume"
    /\ handled = 2
    /\ sink.volume = 0
    /\ sink.paused
    /\ QueuedTrack(sink.queue) # -1

\* C18: a GetPosition is answered with None exactly when there is no Playing
\* State, and otherwise with the start_offset of track current_track plus
\* the sink's position in the queued buffer, and the duration of the
\* session; current_track is a valid index whenever the loop takes the
\* command, and the loop runs on.
C18_PositionReply ==
    [][Receives("GetOffset") =>
          /\ status' = "loop"
          /\ Loaded => CurrentTrack < Len(Tracks)
          /\ Head(events).arg = 1 =>
                /\ reply' # None
                /\ (reply'[1][2] = None) <=> ~Loaded
                /\ Loaded =>
                     reply'[1][2] = Some(<<TrackAt(Tracks, CurrentTrack).start_offset + sink.pos,
                                          playing[1].playback.duration>>)]_vars

\* A GetPosition was answered one second into track 1.
C18_Witness ==
    /\ status = "loop"
    /\ Loaded
    /\ last.kind = "GetOffset"
    /\ last.arg = 1
    /\ CurrentTrack = 1
    /\ sink.pos = 1
    /\ reply = Some(<<"GetOffset", Some(<<TrackAt(Tracks, 1).start_offset + 1,
                                          playing[1].playback.duration>>)>>)

\* get_audio_source takes the local file.
TakesLocal == rs_args.local_mode /\ rs_args.track.metadata /\ rs_args.open_ok

\* C19: get_audio_source returns the local stream exactly when local mode is
\* on, the track has a local descriptor and the file opens; in every other
\* case it returns the remote stream when the download succeeds, and it
\* fails only when the download fails.
C19_LocalElseRemote ==
    rs_result # None =>
        /\ (rs_result[1] = "local") <=> TakesLocal
        /\ (rs_result[1] = "remote") <=> (~TakesLocal /\ rs_args.remote_ok)
        /\ (rs_result[1] = "error") => ~rs_args.remote_ok

\* Local mode is on, the track has a descriptor, the file does not open, and
\* the remote stream is returned.
C19_Witness ==
    /\ rs_result = Some("remote")
    /\ rs_args.local_mode
    /\ rs_args.track.metadata
    /\ ~rs_args.open_ok

\* main runs set_current_item to its end.
LoadDone == status = "set_item" /\ status' # "set_item"

\* C20: when set_current_item returns Ok(true), Playing State holds the
\* session with the track and the sink holds exactly the buffer of the track
\* that the Track Index gives for the session's position, positioned at the
\* offset within it, after a single resolution; when it returns otherwise
\* (nothing being listened to, an error of resolution, decode or seek, or a
\* panic), Playing State is what it was.
C20_LoadEntersPlayingLast ==
    [][LoadDone =>
          /\ last'.outcome = "ok" =>
                /\ playing' # None
                /\ LET found == GetActiveTrackIndex(playing'[1].playback.audio_tracks,
                                                    playing'[1].playback.current_time)
                   IN  /\ found # None
                       /\ playing'[1].current_track = found[1][1]
                       /\ Len(sink'.queue) = 1
                       /\ QueuedTrack(sink'.queue) = found[1][1]
                       /\ sink'.pos = found[1][2]
                       /\ resolved' = <<found[1][1]>>
          /\ last'.outcome # "ok" => playing' = playing]_vars

\* The seek failed after the start track was resolved and appended, and
\* there is no Playing State.
C20_Witness ==
    /\ status = "err"
    /\ last.kind = "Load"
    /\ resolved # <<>>
    /\ QueuedTrack(sink.queue) # -1
    /\ playing = None

\* The buffer of the last track has played to its end, the loop has just
\* handled its notification, and it runs on with nothing queued.
EndOfLastTrackHandled ==
    /\ status = "loop"
    /\ Loaded
    /\ last.kind = "AudioEnd"
    /\ sink.ended = Len(Tracks) - 1
    /\ NumTrackBuffers(sink.queue) = 0
    /\ on_audio_end.msg = "none"

\* C21: handling the end-of-track signal on the last track leaves the loop
\* running with nothing queued (Finished), and a SeekTo with a position in
\* range that is handled from there queues the track the Track Index gives,
\* positioned at the offset within it, with a new wait armed behind it.
C21_Original ==
    [][/\ (AudioEndTaken /\ Loaded /\ CurrentTrack = Len(Tracks) - 1)
            => EndOfLastTrackHandled'
       /\ (/\ EndOfLastTrackHandled
           /\ Receives("Seek")
           /\ GetActiveTrackIndex(Tracks, Head(events).arg) # None
           /\ last'.outcome = "ok")
            => /\ status' = "loop"
               /\ QueuedTrack(sink'.queue) = SeekTarget[1]
               /\ sink'.pos = SeekTarget[2]
               /\ HasLiveCallback(sink'.queue)]_vars

\* C22: a GetVolume or GetPosition whose caller has dropped the reply
\* receiver is taken without effect: the loop keeps running, nothing is
\* delivered, and Playing State, the sink and the armed wait are unchanged.
C22_DroppedReplyIsIgnored ==
    [][\A k \in {"GetVolume", "GetOffset"} :
          (Receives(k) /\ Head(events).arg = 0) =>
            /\ status' = "loop"
            /\ reply' = reply
            /\ playing' = playing
            /\ sink' = sink
            /\ on_audio_end' = on_audio_end]_vars

\* A GetPosition whose caller was gone was taken in state Loaded, and the
\* loop runs on with its buffer queued.
C22_Witness ==
    /\ status = "loop"
    /\ Loaded
    /\ last.kind = "GetOffset"
    /\ last.arg = 0
    /\ reply = None
    /\ QueuedTrack(sink.queue) # -1

\* Queued callbacks whose notification would reach the receiver the loop
\* holds, and the notifications the loop can still receive: those callbacks
\* and a notification already in the receiver.
LiveCallbacks(queue) ==
    Cardinality({ k \in 1..Len(queue) : queue[k].kind = "callback" /\ queue[k].live })

Outstanding == LiveCallbacks(sink.queue) + (IF on_audio_end.msg = "none" THEN 0 ELSE 1)

\* C23: the running loop has at most one deliverable end-of-buffer
\* notification; after every Seek or end-of-track handling that re-arms the
\* wait, the only live callback is the one just appended as the last source
\* of the sink and the new receiver is empty; and after an end-of-track
\* handling in state Loaded that callback sits behind the newly queued
\* buffer, so the next handling needs another buffer rendered to its end.
C23_OneOutstandingNotification ==
    /\ [](status = "loop" => Outstanding <= 1)
    /\ [][/\ ((Receives("Seek") \/ AudioEndTaken) /\ status' = "loop") =>
               /\ LiveCallbacks(sink'.queue) = 1
               /\ sink'.queue[Len(sink'.queue)] = CallbackItem(TRUE)
               /\ on_audio_end' = [msg |-> "none", closed |-> FALSE]
          /\ (AudioEndTaken /\ Loaded /\ status' = "loop") =>
               /\ Head(sink'.queue).kind = "track"
               /\ Len(sink'.queue) = 2]_vars

\* A Seek within the queued track re-armed the wait: the callback armed
\* before is still queued behind the buffer, dead, followed by the new one.
C23_Witness ==
    /\ status = "loop"
    /\ Loaded
    /\ last.kind = "Seek"
    /\ Len(sink.queue) = 3
    /\ sink.queue[1].kind = "track"
    /\ sink.queue[2] = CallbackItem(FALSE)
    /\ sink.queue[3] = CallbackItem(TRUE)

\* C24: the sink never holds more than one decoded track buffer, whatever
\* commands and signals were handled, and a handler that appended a buffer
\* leaves exactly that one (until it has played to its end).
C24_OneTrackBuffer ==
    /\ NumTrackBuffers(sink.queue) <= 1
    /\ (last # NoEvent /\ last.kind # "Closed" /\ last.switched)
         => (NumTrackBuffers(sink.queue) = 1 \/ sink.ended = resolved[Len(resolved)])

\* Load, a track-switching Seek and an auto-advance have each appended a
\* buffer, and the sink holds one.
C24_Witness ==
    /\ status = "loop"
    /\ Len(resolved) = 3
    /\ handled = 1
    /\ last.kind = "AudioEnd"
    /\ NumTrackBuffers(sink.queue) = 1

\* The decoded track buffers in the sink, in queue order.
IsTrackItem(item) == item.kind = "track"

TrackBuffers(queue) == SelectSeq(queue, IsTrackItem)

\* The loop takes a Seek whose target track is playing.current_track.
SeekSameTrack ==
    /\ Receives("Seek")
    /\ Loaded
    /\ GetActiveTrackIndex(Tracks, Head(events).arg) # None
    /\ SeekTarget[1] = CurrentTrack

\* C25: a SeekTo whose located track is current_track resolves nothing,
\* leaves Playing State, the queued track buffers, the volume and the
\* play/pause state as they were, and when it succeeds on a sink that has
\* something queued the position becomes the offset within the track;
\* when it fails the sink is untouched.
C25_SameTrackSeeksInBuffer ==
    [][SeekSameTrack =>
          /\ resolved' = resolved
          /\ playing' = playing
          /\ TrackBuffers(sink'.queue) = TrackBuffers(sink.queue)
          /\ sink'.paused = sink.paused
          /\ sink'.volume = sink.volume
          /\ (last'.outcome = "ok" /\ sink.queue # <<>>) => sink'.pos = SeekTarget[2]
          /\ last'.outcome # "ok" => sink' = sink]_vars

\* After a Pause, a Seek to position 1 moved the paused buffer of track 0,
\* the only track ever resolved, to offset 1.
C25_Witness ==
    /\ status = "loop"
    /\ Loaded
    /\ last.kind = "Seek"
    /\ last.arg = 1
    /\ last.outcome = "ok"
    /\ resolved = <<0>>
    /\ QueuedTrack(sink.queue) = 0
    /\ sink.pos = 1
    /\ sink.paused
    /\ handled = 2

\* C27: whenever there is a Playing State, current_track is an index of the
\* session's track list.
C27_Original ==
    Loaded => (0 <= CurrentTrack /\ CurrentTrack < Len(Tracks))

\* C28: a GetPosition taken right after a successful Seek to p, with the
\* buffer still at the offset the Seek left it at, is answered with p.
C28_Original ==
    [][(/\ Receives("GetOffset")
        /\ Head(events).arg = 1
        /\ Loaded
        /\ last.kind = "Seek"
        /\ last.outcome = "ok"
        /\ QueuedTrack(sink.queue) # -1
        /\ sink.pos = GetActiveTrackIndex(Tracks, last.arg)[1][2]) =>
          reply' = Some(<<"GetOffset", Some(<<last.arg, playing[1].playback.duration>>)>>)]_vars

\* C29: without a Playing State every step of the running loop leaves it
\* without one, resolves no track and queues no track buffer, and the loop
\* runs on unless the command queue is closed and drained.
C29_IdleStaysIdle ==
    [][(status = "loop" /\ playing = None) =>
          /\ playing' = None
          /\ resolved' = resolved
          /\ NumTrackBuffers(sink'.queue) = 0
          /\ status' = "loop" \/ (status' = "ok" /\ RecvNone)]_vars

\* In Idle the loop has handled a command and then an end-of-buffer
\* notification, and runs on in Idle with a new wait armed on the empty,
\* paused sink.
C29_Witness ==
    /\ status = "loop"
    /\ playing = None
    /\ resolved = <<>>
    /\ handled = 1
    /\ last.kind = "AudioEnd"
    /\ last.outcome = "noop"
    /\ sink.queue = <<CallbackItem(TRUE)>>
    /\ sink.paused

\* A query whose caller waits for the answer is in the command queue.
QueryWaiting ==
    \E k \in 1..Len(events) :
        events[k].kind \in {"GetVolume", "GetOffset"} /\ events[k].arg = 1

\* C30: a GetVolume or GetPosition that is in the command queue will be
\* answered: the loop is running for as long as such a query waits.
C30_Original == QueryWaiting => status = "loop"

\* ------------------------------------------ the loop with awaits in flight
\* The same program with the two awaits that leave the task (the download in
\* get_audio_source, reached from seek and from add_next_track) as points of
\* their own: status "resolving" is the loop suspended inside the arm it
\* chose, after clear() and before the stream is there.  `last` holds the
\* arm in flight (outcome "pending") with what it needs on return.
InFlight(kind, arg, was_paused) ==
    [kind |-> kind, arg |-> arg, outcome |-> "pending",
     pending |-> on_audio_end.msg, switched |-> FALSE, was_paused |-> was_paused]

\* seek would take the branch current_track != playing.current_track.
SwitchNeeded(position) ==
    /\ Loaded
    /\ GetActiveTrackIndex(Tracks, position) # None
    /\ GetActiveTrackIndex(Tracks, position)[1][1] # CurrentTrack

\* add_next_track would go on to get_audio_source.
NextTrackExists == Loaded /\ CurrentTrack + 1 < Len(Tracks)

\* The control surface sends a command while the loop is suspended.
SendWhileResolving ==
    /\ status = "resolving"
    /\ senders
    /\ sent < MaxCommands
    /\ Len(events) < MaxQueue
    /\ \E e \in ClientEvents : events' = Append(events, Queued(e, sent + 1))
    /\ sent' = sent + 1
    /\ UNCHANGED <<status, playing, use_local, sink, on_audio_end, senders,
                   resolved, reply, last, handled, tl_vars, rs_vars>>

\* Every sender is dropped while the loop is suspended.
DropSendersWhileResolving ==
    /\ status = "resolving"
    /\ senders
    /\ senders' = FALSE
    /\ UNCHANGED <<status, playing, use_local, sink, on_audio_end, events, sent,
                   resolved, reply, last, handled, tl_vars, rs_vars>>

\* Seek arm, no download: seek returns, unwraps or fails without leaving the
\* task.
SeekInPlace ==
    /\ events # <<>>
    /\ ~SwitchNeeded(Head(events).arg)
    /\ HandleSeek

\* Seek arm up to the await: is_paused read, clear(), get_audio_source called.
SeekStartsResolution ==
    /\ Receives("Seek")
    /\ SwitchNeeded(Head(events).arg)
    /\ \E fires \in BOOLEAN :
         Becomes(Resolve(SinkClear(Cur, fires),
                         GetActiveTrackIndex(Tracks, Head(events).arg)[1][1]))
    /\ status' = "resolving"
    /\ last' = InFlight("Seek", Head(events).arg, sink.paused)
    /\ UNCHANGED <<use_local, senders, sent, reply, tl_vars, rs_vars>>

\* Seek arm from the await on: decode, append, play() unless it was paused,
\* try_seek, and back in the loop on_audio_end = wait_till_end().
SeekResolutionReturns ==
    /\ status = "resolving"
    /\ last.kind = "Seek"
    /\ \E w \in { x \in Worlds : ~x.clear_fires } :
         LET found == GetActiveTrackIndex(Tracks, last.arg)[1]
             source == GetAudioSource(use_local, TrackAt(Tracks, found[1]), w.open_ok, w.remote_ok)
             appended == SinkAppend(Cur, found[1], source)
             resumed == IF ~last.was_paused THEN SinkPlay(appended) ELSE appended
             r == IF source = "error" \/ ~w.decode_ok
                  THEN Outcome(Cur, "err", FALSE)
                  ELSE SeekTail(resumed, found[2], w, TRUE)
         IN  /\ Becomes(IF r.outcome = "ok" THEN WaitTillEnd(r.c) ELSE r.c)
             /\ status' = StatusAfter(r.outcome)
             /\ last' = [kind |-> "Seek", arg |-> last.arg, outcome |-> r.outcome,
                         pending |-> last.pending, switched |-> r.switched]
    /\ UNCHANGED <<use_local, events, senders, sent, reply, handled, tl_vars, rs_vars>>

\* Signal arm, no download: nothing received, no Playing State, or the index
\* past the last track.
AudioEndInPlace ==
    /\ ~(on_audio_end.msg # "none" /\ NextTrackExists)
    /\ HandleAudioEnd

\* Signal arm up to the await: clear(), current_track += 1, get_audio_source
\* called.
AudioEndStartsResolution ==
    /\ status = "loop"
    /\ on_audio_end.msg # "none"
    /\ NextTrackExists
    /\ \E fires \in BOOLEAN :
         LET taken == [Cur EXCEPT !.rx = [@ EXCEPT !.msg = "none"]]
             cleared == SinkClear(taken, fires)
             moved == [cleared EXCEPT
                         !.playing = Some(PlayingState(playing[1].playback, CurrentTrack + 1))]
         IN  Becomes(Resolve(moved, CurrentTrack + 1))
    /\ status' = "resolving"
    /\ last' = InFlight("AudioEnd", 0, sink.paused)
    /\ UNCHANGED <<use_local, events, senders, sent, reply, handled, tl_vars, rs_vars>>

\* Signal arm from the await on: decode, append, and back in the loop
\* on_audio_end = wait_till_end().
AudioEndResolutionReturns ==
    /\ status = "resolving"
    /\ last.kind = "AudioEnd"
    /\ \E w \in { x \in Worlds : ~x.clear_fires /\ x.seek_ok } :
         LET source == GetAudioSource(use_local, TrackAt(Tracks, CurrentTrack), w.open_ok, w.remote_ok)
             failed == source = "error" \/ ~w.decode_ok
         IN  /\ Becomes(IF failed THEN Cur
                        ELSE WaitTillEnd(SinkAppend(Cur, CurrentTrack, source)))
             /\ status' = IF failed THEN "err" ELSE "loop"
             /\ last' = [kind |-> "AudioEnd", arg |-> 0,
                         outcome |-> IF failed THEN "err" ELSE "ok",
                         pending |-> last.pending, switched |-> ~failed]
    /\ UNCHANGED <<use_local, events, senders, sent, reply, handled, tl_vars, rs_vars>>

NextInFlight ==
    \/ UseLocal
    \/ SetCurrentItemNone
    \/ SetCurrentItem
    \/ MainPlay
    \/ StartLoop
    \/ Send
    \/ DropSenders
    \/ SendWhileResolving
    \/ DropSendersWhileResolving
    \/ HandlePlay
    \/ HandlePause
    \/ SeekInPlace
    \/ SeekStartsResolution
    \/ SeekResolutionReturns
    \/ HandleVolume
    \/ HandleGetVolume
    \/ HandleGetOffset
    \/ HandleClosed
    \/ AudioEndInPlace
    \/ AudioEndStartsResolution
    \/ AudioEndResolutionReturns
    \/ Tick
    \/ TrackEnds
    \/ CallbackRuns

SpecInFlight == Init /\ [][NextInFlight]_vars

\* C26: while a resolution started by a Seek or by an end-of-track handling
\* is in flight, no command is taken and no signal is handled: commands
\* only join the queue, the client is untouched until the resolution
\* returns, and when the loop is back at select! the new buffer is queued
\* with the wait re-armed behind it and the commands are all still queued;
\* a command is only ever taken by the loop at select!.
C26_HandlingIsSerialized ==
    [][/\ status = "resolving" =>
            /\ handled' = handled
            /\ events' = events
                 \/ (Len(events') = Len(events) + 1 /\ SubSeq(events', 1, Len(events)) = events)
            /\ status' = "resolving" =>
                 UNCHANGED <<playing, sink, on_audio_end, resolved, reply, last>>
            /\ status' = "loop" =>
                 /\ events' = events
                 /\ NumTrackBuffers(sink'.queue) = 1
                 /\ sink'.queue[Len(sink'.queue)] = CallbackItem(TRUE)
                 /\ on_audio_end' = [msg |-> "none", closed |-> FALSE]
       /\ handled' # handled => (status = "loop" /\ last.outcome # "pending")]_vars

\* Two commands arrived while the resolution started by an end-of-track
\* signal is in flight, and wait in the queue.
C26_Witness ==
    /\ status = "resolving"
    /\ last.kind = "AudioEnd"
    /\ handled = 0
    /\ Len(events) = 2
    /\ sink.queue = <<>>

====
